---- MODULE Spec2Model ----
(***************************************************************************)
(* msgbus: an in-memory publish/subscribe broker (src/msgbus.go).          *)
(*                                                                         *)
(* The broker state is the topic registry, the per-topic pull queues and   *)
(* the per-topic listener sets.  The broker's methods are operators on     *)
(* that state; callers are goroutines that run them, consumers are the     *)
(* goroutines receiving from the channels Subscribe returns                *)
(* (Client.writePump).                                                     *)
(*                                                                         *)
(*   Spec      one caller goroutine: every request or call runs to its     *)
(*             end before the next starts (as in msgbus_test.go), while    *)
(*             the consumers run concurrently with it.                     *)
(*   SpecConc  several caller goroutines whose statements interleave, as   *)
(*             net/http runs ServeHTTP for concurrent requests.            *)
(*   SpecSess  websocket sessions (Client.Start, readPump, writePump)      *)
(*             with one caller goroutine publishing.                       *)
(*   SpecClient  the client package (Subscriber: connect, readLoop,        *)
(*             writeLoop, Stop) against a broker that fans messages out    *)
(*             to its connections.                                         *)
(*   SpecReconnect  the same client when the application never calls      *)
(*             Stop and nothing is published.                              *)
(*   SpecPull  Client.Pull against the broker, directly or through a       *)
(*             server that answers with an error.                          *)
(*   SpecMetrics  the calls of Spec on a broker made with metrics, with    *)
(*             the counter of the fan-out.                                 *)
(*   SpecGauges  the same, with the counter of the topics or the gauge of  *)
(*             the subscribers.                                            *)
(*   SpecWrite  the sessions of SpecSess on a broker made with metrics,    *)
(*             with writes that fail.                                      *)
(*   SpecShutdown  the sessions of SpecSess with calls of Unsubscribe by   *)
(*             the application.                                            *)
(***************************************************************************)
EXTENDS Integers, Sequences, FiniteSets, Bags, TLC

\* ---------------------------------------------------------------- bounds
TopicNames == {"a", "b"}
Ids == {"s1", "s2"}
Payloads == {"x", "y", "zzz"}
Threads == {1, 2}
\* the requests of one run: the topic names, subscriber ids and payloads used,
\* and whether the peers keep the last message they were sent
Environments ==
    {[names |-> {"a"}, peers |-> {"s1", "s2"}, payloads |-> {"x"},
      record |-> FALSE],
     [names |-> {"a", "b"}, peers |-> {"s1"}, payloads |-> {"x"},
      record |-> FALSE],
     [names |-> {"a"}, peers |-> {}, payloads |-> {"x", "y", "zzz"},
      record |-> FALSE],
     [names |-> {"a"}, peers |-> {"s1"}, payloads |-> {"x"},
      record |-> TRUE]}
\* the same for the runs with concurrent callers
ConcEnvironments ==
    {[names |-> {"a"}, peers |-> {"s1"}, payloads |-> {"x"},
      record |-> TRUE]}
MaxSeq == 3
MaxSubs == 2
MaxQueueSize == 2
MaxPayloadSize == 2

\* ------------------------------------------------------------- constants
NilTopic == "nil"
\* net/http status codes
StatusOK == 200
StatusNotFound == 404
StatusRequestEntityTooLarge == 413
StatusInternalServerError == 500
NilChan == <<"nil", "nil", 0>>
\* Message{} : the zero value of Message
ZeroMessage == [ID |-> 0, Topic |-> NilTopic, Payload |-> ""]

VARIABLES
    mb,   \* the MessageBus and the channels it has made, a record of
          \*   topics    : mb.topics, name -> Topic (its Sequence counter)
          \*   queues    : mb.queues, topic -> Queue (a sequence of messages)
          \*   listeners : mb.listeners, topic -> Listeners (ids, chs)
          \*   made      : the number of channels made per (topic, id)
          \*   closed    : the channels close() has been called on
          \*   rx        : per channel, the goroutine receiving from it
          \*   ss        : per channel of a websocket Client, its read
          \*               goroutine and its connection
          \*   metrics   : mb.metrics, nil or the values of its counters
    th,   \* per caller goroutine, its operation, position and locals
    env,  \* the names, ids and payloads the callers of this run use
    sub   \* the client program: its Subscriber, the goroutines it has
          \* started and the connections it has dialed

vars == <<mb, th, env, sub>>

\* a broker process runs no client code
NoSubscriber == << >>

\* ---------------------------------------------------------- map helpers
\* m[k] = v for a Go map held as a function over its present keys
MapSet(m, k, v) == [x \in (DOMAIN m) \cup {k} |-> IF x = k THEN v ELSE m[x]]
\* delete(m, k)
MapDelete(m, k) == [x \in (DOMAIN m) \ {k} |-> m[x]]

\* ------------------------------------------------------------ Queue
\* Push that never drops (no capacity check)
PushUnbounded(q, m) == Append(q, m)

\* Push that drops the new message instead of the oldest when full
PushDropNewest(q, m) == IF Len(q) >= MaxQueueSize THEN q ELSE Append(q, m)

\* q.Push(m): append to the tail, dropping the head when at capacity
Push(q, m) ==
    IF Len(q) >= MaxQueueSize THEN Append(Tail(q), m) ELSE Append(q, m)

\* q.Pop(): the head and the rest, or nil on an empty queue
Pop(q) ==
    IF Len(q) = 0
    THEN [ok |-> FALSE, m |-> ZeroMessage, q |-> q]
    ELSE [ok |-> TRUE, m |-> Head(q), q |-> Tail(q)]

\* ------------------------------------------------------------ Listeners
NewListeners == [ids |-> {}, chs |-> << >>]

\* ls.Length()
Length(ls) == Cardinality(ls.ids)

\* ls.Exists(id)
Exists(ls, id) == id \in ls.ids

\* ls.Get(id)
ListenersGet(ls, id) ==
    IF id \in DOMAIN ls.chs THEN [ch |-> ls.chs[id], ok |-> TRUE]
    ELSE [ch |-> NilChan, ok |-> FALSE]

\* ls.Add(id), ch being the channel that make(chan Message) returns
Add(ls, id, ch) == [ids |-> ls.ids \cup {id}, chs |-> MapSet(ls.chs, id, ch)]

\* a Remove that leaves the closed channel in the map
RemoveKeepsChannel(ls, id) == [ls EXCEPT !.ids = @ \ {id}]

\* ls.Remove(id): the two deletes (close(ls.chs[id]) is in Unsubscribe below)
Remove(ls, id) == [ids |-> ls.ids \ {id}, chs |-> MapDelete(ls.chs, id)]

\* a send without the default case: it waits for the receiver
SelectSendBlocking(waiting) == [done |-> waiting, sent |-> waiting]

\* select { case ch <- message: i++; default: } on an unbuffered channel:
\* the statement always completes, and the send happens iff a receiver is
\* blocked in a receive on ch.
SelectSend(waiting) == [done |-> TRUE, sent |-> waiting]

\* ------------------------------------------------------------ Metrics
\* a nil *Metrics
NilMetrics == << >>

\* NewMetrics("msgbus") with its counters registered, all at 0: among
\* them client/errors, bus/dropped, bus/delivered, bus/topics and the gauge
\* bus/subscribers.  The broker writes its counters and never reads them,
\* so a run keeps the values of the counters in names, the ones it
\* observes.
NewMetrics(names) == [n \in names |-> 0]

\* if mb.metrics != nil { mb.metrics.Counter(..., name).Inc() }
Inc(b, name) ==
    IF name \in DOMAIN b.metrics
    THEN [b EXCEPT !.metrics[name] = @ + 1] ELSE b

\* if mb.metrics != nil { mb.metrics.Gauge(..., name).Dec() }
Dec(b, name) ==
    IF name \in DOMAIN b.metrics
    THEN [b EXCEPT !.metrics[name] = @ - 1] ELSE b

\* ------------------------------------------------------------ MessageBus
\* NewMessageBus(options) with options nil or WithMetrics false
NewMessageBus ==
    [topics |-> << >>, queues |-> << >>, listeners |-> << >>,
     made |-> [k \in TopicNames \X Ids |-> 0], closed |-> {}, rx |-> << >>,
     ss |-> << >>, metrics |-> NilMetrics]

\* NewMessageBus(&Options{WithMetrics: true})
NewMessageBusWithMetrics(names) ==
    [NewMessageBus EXCEPT !.metrics = NewMetrics(names)]

\* A receiver is blocked in a receive on channel ch
ReceiverWaiting(b, ch) == ch \in DOMAIN b.rx /\ b.rx[ch].pc = "select"

\* a fan-out that gives up at the first subscriber that is not ready
NotifiedUntilBusy(b, ls) ==
    IF \A id \in DOMAIN ls.chs : b.rx[ls.chs[id]].pc = "select"
    THEN DOMAIN ls.chs ELSE {}

\* The subscribers whose select takes the send in ls.NotifyAll(message)
Notified(b, ls) ==
    {id \in DOMAIN ls.chs : SelectSend(ReceiverWaiting(b, ls.chs[id])).sent}

\* ls.NotifyAll(message) reaches its return: no iteration blocks
NotifyAllCompletes(b, ls) ==
    \A id \in DOMAIN ls.chs : SelectSend(ReceiverWaiting(b, ls.chs[id])).done

\* ls.NotifyAll(message): each receiver that took the message now holds
\* it; n is the count of sends the function returns
ListenersNotifyAll(b, ls, message) ==
    [b |-> [b EXCEPT !.rx =
               [c \in DOMAIN b.rx |->
                   IF \E id \in Notified(b, ls) : ls.chs[id] = c
                   THEN [pc |-> "write", msg |-> message]
                   ELSE b.rx[c]]],
     n |-> Cardinality(Notified(b, ls))]

\* a NewTopic that makes a fresh topic for every call
NewTopicResets(b, t) ==
    [b EXCEPT !.topics = MapSet(@, t, [Name |-> t, Sequence |-> 0])]

\* mb.NewTopic(topic)
NewTopic(b, t) ==
    IF t \in DOMAIN b.topics THEN b
    ELSE Inc([b EXCEPT !.topics = MapSet(@, t, [Name |-> t, Sequence |-> 0])],
             "topics")

\* the Message that mb.NewMessage(topic, payload) returns
MessageOf(b, t, p) ==
    [ID |-> b.topics[t].Sequence, Topic |-> t, Payload |-> p]

\* the store of topic.Sequence++ (deferred in NewMessage)
SequenceStore(b, t, v) == [b EXCEPT !.topics[t].Sequence = v]

\* NewMessage without the deferred topic.Sequence++
NewMessageNoInc(b, t, p) == [msg |-> MessageOf(b, t, p), b |-> b]

\* mb.NewMessage(topic, payload)
NewMessage(b, t, p) ==
    [msg |-> MessageOf(b, t, p),
     b |-> SequenceStore(b, t, b.topics[t].Sequence + 1)]

\* a Put that pushes the message on every queue the broker has
QueuePushEvery(b, message) ==
    LET t == message.Topic
        q == IF t \in DOMAIN b.queues THEN b.queues[t] ELSE << >>
        qs == MapSet(b.queues, t, q)
    IN  [b EXCEPT !.queues = [u \in DOMAIN qs |-> Push(qs[u], message)]]

\* mb.Put(message), up to q.Push(message)
QueuePush(b, message) ==
    LET t == message.Topic
        q == IF t \in DOMAIN b.queues THEN b.queues[t] ELSE << >>
    IN  [b EXCEPT !.queues = MapSet(@, t, Push(q, message))]

\* a fan-out that takes the message off the queue once a subscriber has it
NotifyAllDrains(b, message) ==
    IF message.Topic \notin DOMAIN b.listeners THEN [b |-> b, n |-> 0]
    ELSE LET f == ListenersNotifyAll(b, b.listeners[message.Topic], message)
         IN  [b |-> IF f.n = 0 THEN f.b
                    ELSE [f.b EXCEPT !.queues[message.Topic] =
                              SubSeq(@, 1, Len(@) - 1)],
              n |-> f.n]

\* a test that counts a drop only when no subscriber took the message
DroppedWhenNone(n, ls) == n = 0 /\ Length(ls) # 0

\* mb.NotifyAll: n != ls.Length()
Dropped(n, ls) == n # Length(ls)

\* mb.NotifyAll(message); n is its local n (0 when it returns early)
NotifyAll(b, message) ==
    IF message.Topic \notin DOMAIN b.listeners THEN [b |-> b, n |-> 0]
    ELSE LET f == ListenersNotifyAll(b, b.listeners[message.Topic], message)
         IN  [b |-> IF Dropped(f.n, b.listeners[message.Topic])
                    THEN Inc(f.b, "dropped") ELSE f.b,
              n |-> f.n]

\* mb.Put(message)
Put(b, message) == NotifyAll(QueuePush(b, message), message)

\* mb.Put(message) returns: its fan-out does not block
PutCompletes(b, message) ==
    message.Topic \in DOMAIN b.listeners
        => NotifyAllCompletes(b, b.listeners[message.Topic])

\* Get that returns Message{} in place of the popped message
GetReturnsZero(b, t) ==
    IF t \notin DOMAIN b.queues
    THEN [b |-> b, msg |-> ZeroMessage, ok |-> FALSE, fetched |-> 0]
    ELSE LET r == Pop(b.queues[t]) IN
         [b |-> [b EXCEPT !.queues[t] = r.q], msg |-> ZeroMessage, ok |-> r.ok,
          fetched |-> IF r.ok THEN 1 ELSE 0]

\* Get that counts every call as fetched
GetCountsEmpty(b, t) ==
    IF t \notin DOMAIN b.queues
    THEN [b |-> b, msg |-> ZeroMessage, ok |-> FALSE, fetched |-> 1]
    ELSE LET r == Pop(b.queues[t]) IN
         [b |-> [b EXCEPT !.queues[t] = r.q], msg |-> r.m, ok |-> r.ok,
          fetched |-> 1]

\* mb.Get(topic); fetched is the number of increments of the counter
\* bus/fetched the call makes
Get(b, t) ==
    IF t \notin DOMAIN b.queues
    THEN [b |-> b, msg |-> ZeroMessage, ok |-> FALSE, fetched |-> 0]
    ELSE LET r == Pop(b.queues[t]) IN
         [b |-> [b EXCEPT !.queues[t] = r.q], msg |-> r.m, ok |-> r.ok,
          fetched |-> IF r.ok THEN 1 ELSE 0]

\* Subscribe without the ls.Exists(id) test: it always calls ls.Add(id)
SubscribeAlwaysAdds(b, id, t) ==
    LET b1 == IF t \in DOMAIN b.topics THEN b
              ELSE [b EXCEPT !.topics =
                        MapSet(@, t, [Name |-> t, Sequence |-> 0])]
        b2 == IF t \in DOMAIN b1.listeners THEN b1
              ELSE [b1 EXCEPT !.listeners = MapSet(@, t, NewListeners)]
        ch == <<t, id, b.made[<<t, id>>] + 1>>
    IN  [b |-> [b2 EXCEPT
                   !.listeners[t] = Add(b2.listeners[t], id, ch),
                   !.made[<<t, id>>] = @ + 1,
                   !.rx = MapSet(@, ch, [pc |-> "start", msg |-> ZeroMessage])],
         ch |-> ch]

\* Subscribe that hands the head of the queue to a new subscriber
SubscribeReplays(b, id, t) ==
    LET b1 == IF t \in DOMAIN b.topics THEN b
              ELSE [b EXCEPT !.topics =
                        MapSet(@, t, [Name |-> t, Sequence |-> 0])]
        b2 == IF t \in DOMAIN b1.listeners THEN b1
              ELSE [b1 EXCEPT !.listeners = MapSet(@, t, NewListeners)]
        ls == b2.listeners[t]
        ch == <<t, id, b.made[<<t, id>>] + 1>>
        q == IF t \in DOMAIN b.queues THEN b.queues[t] ELSE << >>
    IN  IF Exists(ls, id)
        THEN [b |-> b2, ch |-> ListenersGet(ls, id).ch]
        ELSE [b |-> [b2 EXCEPT
                        !.listeners[t] = Add(ls, id, ch),
                        !.made[<<t, id>>] = @ + 1,
                        !.rx = MapSet(@, ch,
                                   IF q = << >>
                                   THEN [pc |-> "start", msg |-> ZeroMessage]
                                   ELSE [pc |-> "write", msg |-> Head(q)])],
              ch |-> ch]

\* mb.Subscribe(id, topic); the deferred function counts every call on the
\* gauge bus/subscribers
Subscribe(b, id, t) ==
    LET b1 == IF t \in DOMAIN b.topics THEN b
              ELSE [b EXCEPT !.topics =
                        MapSet(@, t, [Name |-> t, Sequence |-> 0])]
        b2 == IF t \in DOMAIN b1.listeners THEN b1
              ELSE [b1 EXCEPT !.listeners = MapSet(@, t, NewListeners)]
        ls == b2.listeners[t]
        ch == <<t, id, b.made[<<t, id>>] + 1>>
    IN  IF Exists(ls, id)
        THEN [b |-> Inc(b2, "subscribers"), ch |-> ListenersGet(ls, id).ch]
        ELSE [b |-> Inc([b2 EXCEPT
                        !.listeners[t] = Add(ls, id, ch),
                        !.made[<<t, id>>] = @ + 1,
                        !.rx = MapSet(@, ch,
                                   [pc |-> "start", msg |-> ZeroMessage])],
                        "subscribers"),
              ch |-> ch]

\* Unsubscribe without the ls.Exists(id) test
UnsubscribeFindsListeners(b, id, t) ==
    t \in DOMAIN b.topics /\ t \in DOMAIN b.listeners

\* mb.Unsubscribe(id, topic): does it reach ls.Remove(id)
UnsubscribeFinds(b, id, t) ==
    /\ t \in DOMAIN b.topics
    /\ t \in DOMAIN b.listeners
    /\ Exists(b.listeners[t], id)

\* an Unsubscribe that removes the id from the listeners of every topic
ListenersRemoveEvery(b, id, t) ==
    [b EXCEPT !.closed = @ \cup
                  {b.listeners[u].chs[id] :
                      u \in {v \in DOMAIN b.listeners :
                                 Exists(b.listeners[v], id)}},
              !.listeners = [u \in DOMAIN b.listeners |->
                                Remove(b.listeners[u], id)]]

\* ls.Remove(id) on the listeners of t: close(ls.chs[id]) and the deletes
ListenersRemove(b, id, t) ==
    [b EXCEPT !.closed = @ \cup {ListenersGet(b.listeners[t], id).ch},
              !.listeners[t] = Remove(@, id)]

\* ls.Remove(id) panics: ls is nil, or close() is given a nil or an
\* already closed channel
RemovePanics(b, id, t) ==
    \/ t \notin DOMAIN b.listeners
    \/ LET g == ListenersGet(b.listeners[t], id) IN
       ~g.ok \/ g.ch \in b.closed

\* mb.Unsubscribe(id, topic); a panic unwinds after delete(ls.ids, id);
\* the deferred function runs on every return and on a panic
Unsubscribe(b, id, t) ==
    IF ~UnsubscribeFinds(b, id, t)
    THEN [b |-> Dec(b, "subscribers"), panic |-> FALSE]
    ELSE IF RemovePanics(b, id, t)
    THEN [b |-> Dec(IF t \in DOMAIN b.listeners
                    THEN [b EXCEPT !.listeners[t].ids = @ \ {id}] ELSE b,
                    "subscribers"),
          panic |-> TRUE]
    ELSE [b |-> Dec(ListenersRemove(b, id, t), "subscribers"),
          panic |-> FALSE]

\* ------------------------------------------------------------ callers
IdleThread ==
    [pc |-> "idle", op |-> "none", t |-> NilTopic, id |-> "", p |-> "",
     msg |-> ZeroMessage, tmp |-> 0, n |-> 0, ch |-> NilChan, ok |-> FALSE,
     status |-> 0, fetched |-> 0, todo |-> {}, seen |-> {}]

Init ==
    /\ mb = NewMessageBus
    /\ th = [h \in Threads |-> IdleThread]
    /\ env \in Environments
    /\ sub = NoSubscriber

Update(h, r) ==
    th' = [th EXCEPT ![h] = r] /\ env' = env /\ sub' = sub

RECURSIVE SumOver(_, _)
SumOver(f, S) ==
    IF S = {} THEN 0
    ELSE LET x == CHOOSE y \in S : TRUE IN f[x] + SumOver(f, S \ {x})

\* the messages assigned so far or about to be, and the channels made
Published ==
    SumOver([t \in DOMAIN mb.topics |-> mb.topics[t].Sequence],
            DOMAIN mb.topics)
    + Cardinality({h \in Threads :
          th[h].pc \in {"newtopic", "newmessage", "seq_load", "seq_store"}
          /\ th[h].op = "publish"})
Made ==
    SumOver(mb.made, DOMAIN mb.made)
    + Cardinality({h \in Threads : th[h].pc = "subscribe"})

\* ---- one caller goroutine: each request or call is one action ----------

\* ServeHTTP, POST /t with body p: NewTopic, NewMessage, Put, the response
Publish(t, p) ==
    /\ th[1].pc = "idle"
    /\ Published < MaxSeq
    /\ \E r \in {NewMessage(NewTopic(mb, t), t, p)} :
       /\ PutCompletes(r.b, r.msg)
       /\ \E f \in {Put(r.b, r.msg)} :
          /\ mb' = f.b
          /\ Update(1, [IdleThread EXCEPT
                !.op = "publish", !.t = t, !.p = p, !.msg = r.msg,
                !.n = f.n, !.tmp = f.b.topics[t].Sequence, !.ok = TRUE,
                !.status = StatusOK])

\* ServeHTTP, GET /t without upgrade: NewTopic, Get
Pull(t) ==
    /\ th[1].pc = "idle"
    /\ \E r \in {Get(NewTopic(mb, t), t)} :
       /\ mb' = r.b
       /\ Update(1, [IdleThread EXCEPT
             !.op = "pull", !.t = t, !.msg = r.msg, !.ok = r.ok,
             !.fetched = r.fetched,
             !.status = IF r.ok THEN StatusOK ELSE StatusNotFound])

\* a call of mb.Subscribe(id, t)
DoSubscribe(id, t) ==
    /\ th[1].pc = "idle"
    /\ Made < MaxSubs
    /\ \E r \in {Subscribe(mb, id, t)} :
       /\ mb' = r.b
       /\ Update(1, [IdleThread EXCEPT
             !.op = "subscribe", !.t = t, !.id = id, !.ch = r.ch])

\* a call of mb.Unsubscribe(id, t)
DoUnsubscribe(id, t) ==
    /\ th[1].pc = "idle"
    /\ \E r \in {Unsubscribe(mb, id, t)} :
       /\ mb' = r.b
       /\ Update(1, [IdleThread EXCEPT
             !.pc = IF r.panic THEN "panic" ELSE "idle",
             !.op = "unsubscribe", !.t = t, !.id = id])

\* ------------------------------------------------------------ consumers
\* c.conn.Close() (deferred in writePump and readPump)
ConnClose(ss, c) ==
    IF c \in DOMAIN ss THEN [ss EXCEPT ![c].conn = "closed"] ELSE ss

\* go c.writePump(): the goroutine reaches its select
RxStart(c) ==
    /\ mb.rx[c].pc = "start"
    /\ mb' = [mb EXCEPT !.rx[c].pc = "select"]
    /\ UNCHANGED <<th, env, sub>>

\* c.conn.WriteJSON(msg) returns and the loop is back at its select
RxWriteDone(c) ==
    /\ mb.rx[c].pc = "write"
    /\ mb' = Inc([mb EXCEPT !.rx[c] =
                     [pc |-> "select",
                      msg |-> IF env.record THEN @.msg ELSE ZeroMessage]],
                 "delivered")
    /\ UNCHANGED <<th, env, sub>>

\* a writePump that returns on a failed write of a message
RxWriteFailsReturns(c) ==
    /\ mb.rx[c].pc = "write"
    /\ mb' = Inc([mb EXCEPT !.rx[c] = [pc |-> "exit", msg |-> ZeroMessage],
                            !.ss = ConnClose(@, c)],
                 "errors")
    /\ UNCHANGED <<th, env, sub>>

\* c.conn.WriteJSON(msg) returns an error: it is logged and counted, and
\* the loop is back at its select; the peer has not got the message
RxWriteFails(c) ==
    /\ mb.rx[c].pc = "write"
    /\ mb' = Inc([mb EXCEPT !.rx[c] =
                     [pc |-> "select", msg |-> ZeroMessage]],
                 "errors")
    /\ UNCHANGED <<th, env, sub>>

\* a writePump that returns on the closed channel and leaves the socket
\* open
RxClosedKeepsSocket(c) ==
    /\ mb.rx[c].pc = "select"
    /\ c \in mb.closed
    /\ mb' = [mb EXCEPT !.rx[c] = [pc |-> "exit", msg |-> ZeroMessage]]
    /\ UNCHANGED <<th, env, sub>>

\* msg, ok := <-c.ch with ok = false: the bus closed the channel; the
\* close frame is written and the deferred c.conn.Close() runs on return
RxClosed(c) ==
    /\ mb.rx[c].pc = "select"
    /\ c \in mb.closed
    /\ mb' = [mb EXCEPT !.rx[c] = [pc |-> "exit", msg |-> ZeroMessage],
                        !.ss = ConnClose(@, c)]
    /\ UNCHANGED <<th, env, sub>>

ConsumerStep ==
    \E c \in DOMAIN mb.rx : RxStart(c) \/ RxWriteDone(c) \/ RxClosed(c)

Next ==
    \/ \E t \in env.names, p \in env.payloads : Publish(t, p)
    \/ \E t \in env.names : Pull(t)
    \/ \E id \in env.peers, t \in env.names : DoSubscribe(id, t)
    \/ \E id \in env.peers, t \in env.names : DoUnsubscribe(id, t)
    \/ ConsumerStep

Spec == Init /\ [][Next]_vars

\* ---- concurrent caller goroutines: one action per statement ------------

\* a goroutine starts a request or call
Call(h) ==
    /\ th[h].pc = "idle"
    /\ \E op \in {"publish", "pull", "subscribe", "unsubscribe"},
          t \in env.names, p \in env.payloads :
        /\ op = "publish" => Published < MaxSeq
        /\ op = "subscribe" => Made < MaxSubs
        /\ IF op \in {"publish", "pull"}
           THEN Update(h, [IdleThread EXCEPT
                    !.pc = "newtopic", !.op = op, !.t = t,
                    !.p = IF op = "publish" THEN p ELSE ""])
           ELSE \E id \in env.peers :
                    Update(h, [IdleThread EXCEPT
                        !.pc = op, !.op = op, !.t = t, !.id = id])
    /\ mb' = mb

\* ServeHTTP: t := mb.NewTopic(topic)
DoNewTopic(h) ==
    /\ th[h].pc = "newtopic"
    /\ mb' = NewTopic(mb, th[h].t)
    /\ Update(h, [th[h] EXCEPT
          !.pc = IF th[h].op = "publish" THEN "newmessage" ELSE "get"])

\* NewMessage: the return value Message{ID: topic.Sequence, ...} is built
DoNewMessage(h) ==
    /\ th[h].pc = "newmessage"
    /\ mb' = mb
    /\ Update(h, [th[h] EXCEPT
          !.pc = "seq_load", !.msg = MessageOf(mb, th[h].t, th[h].p)])

\* NewMessage, deferred topic.Sequence++ : the load
DoSequenceLoad(h) ==
    /\ th[h].pc = "seq_load"
    /\ mb' = mb
    /\ Update(h, [th[h] EXCEPT
          !.pc = "seq_store", !.tmp = mb.topics[th[h].t].Sequence])

\* NewMessage, deferred topic.Sequence++ : the store
DoSequenceStore(h) ==
    /\ th[h].pc = "seq_store"
    /\ mb' = SequenceStore(mb, th[h].t, th[h].tmp + 1)
    /\ Update(h, [th[h] EXCEPT !.pc = "push"])

\* Put: q.Push(message)
DoQueuePush(h) ==
    /\ th[h].pc = "push"
    /\ mb' = QueuePush(mb, th[h].msg)
    /\ Update(h, [th[h] EXCEPT !.pc = "notify"])

\* Put: mb.NotifyAll(message) up to the start of the range over ls.chs in
\* ls.NotifyAll: todo are the ids the range has to produce while they stay
\* in the map, seen the ids it has produced
DoNotifyAll(h) ==
    /\ th[h].pc = "notify"
    /\ mb' = mb
    /\ IF th[h].t \notin DOMAIN mb.listeners
       THEN Update(h, [th[h] EXCEPT !.pc = "respond", !.n = 0])
       ELSE Update(h, [th[h] EXCEPT
                !.pc = "range", !.n = 0, !.seen = {},
                !.todo = DOMAIN mb.listeners[th[h].t].chs])

\* ls.NotifyAll: for id, ch := range ls.chs.  The range produces an entry
\* not yet produced, or ends once no entry it started with is left; an
\* entry added since the start may be produced or skipped.  The map is not
\* guarded: when it was written since the range started the runtime may
\* stop the program (concurrent map iteration and map write).  When the
\* range has ended mb.NotifyAll compares n with ls.Length() and counts a
\* drop on bus/dropped.
DoRangeNext(h) ==
    /\ th[h].pc = "range"
    /\ LET chs == mb.listeners[th[h].t].chs IN
       \/ /\ mb' = mb
          /\ \E id \in (DOMAIN chs) \ th[h].seen :
                Update(h, [th[h] EXCEPT
                    !.pc = "send", !.id = id, !.ch = chs[id],
                    !.todo = @ \ {id}, !.seen = @ \cup {id}])
       \/ /\ th[h].todo \cap DOMAIN chs = {}
          /\ mb' = IF Dropped(th[h].n, mb.listeners[th[h].t])
                   THEN Inc(mb, "dropped") ELSE mb
          /\ Update(h, [th[h] EXCEPT
                 !.pc = "respond", !.id = "", !.ch = NilChan,
                 !.todo = {}, !.seen = {}])
       \/ /\ DOMAIN chs # th[h].todo \cup th[h].seen
          /\ mb' = mb
          /\ Update(h, [th[h] EXCEPT !.pc = "panic"])

\* ls.NotifyAll: select { case ch <- message: i++; default: }; a send on
\* a closed channel panics
DoSend(h) ==
    /\ th[h].pc = "send"
    /\ IF th[h].ch \in mb.closed
       THEN /\ mb' = mb
            /\ Update(h, [th[h] EXCEPT !.pc = "panic"])
       ELSE IF SelectSend(ReceiverWaiting(mb, th[h].ch)).sent
       THEN /\ mb' = [mb EXCEPT !.rx[th[h].ch] =
                         [pc |-> "write", msg |-> th[h].msg]]
            /\ Update(h, [th[h] EXCEPT !.pc = "range", !.n = @ + 1])
       ELSE /\ mb' = mb
            /\ Update(h, [th[h] EXCEPT !.pc = "range"])

\* ServeHTTP: the response "... with sequence <t.Sequence>"
DoRespond(h) ==
    /\ th[h].pc = "respond"
    /\ mb' = mb
    /\ Update(h, [th[h] EXCEPT
          !.pc = "idle", !.ok = TRUE, !.tmp = mb.topics[th[h].t].Sequence,
          !.status = StatusOK])

\* ServeHTTP: message, ok := mb.Get(t)
DoGet(h) ==
    /\ th[h].pc = "get"
    /\ LET r == Get(mb, th[h].t) IN
       /\ mb' = r.b
       /\ Update(h, [th[h] EXCEPT
             !.pc = "idle", !.msg = r.msg, !.ok = r.ok,
             !.fetched = r.fetched,
             !.status = IF r.ok THEN StatusOK ELSE StatusNotFound])

\* mb.Subscribe(id, topic)
DoSubscribeCall(h) ==
    /\ th[h].pc = "subscribe"
    /\ LET r == Subscribe(mb, th[h].id, th[h].t) IN
       /\ mb' = r.b
       /\ Update(h, [th[h] EXCEPT !.pc = "idle", !.ch = r.ch])

\* mb.Unsubscribe(id, topic) up to its ls.Exists(id) test
DoUnsubscribeFind(h) ==
    /\ th[h].pc = "unsubscribe"
    /\ mb' = IF UnsubscribeFinds(mb, th[h].id, th[h].t) THEN mb
             ELSE Dec(mb, "subscribers")
    /\ Update(h, [th[h] EXCEPT
          !.pc = IF UnsubscribeFinds(mb, th[h].id, th[h].t)
                 THEN "remove" ELSE "idle"])

\* mb.Unsubscribe(id, topic): ls.Remove(id)
DoRemove(h) ==
    /\ th[h].pc = "remove"
    /\ IF RemovePanics(mb, th[h].id, th[h].t)
       THEN /\ mb' = Dec([mb EXCEPT
                             !.listeners[th[h].t].ids = @ \ {th[h].id}],
                         "subscribers")
            /\ Update(h, [th[h] EXCEPT !.pc = "panic"])
       ELSE /\ mb' = Dec(ListenersRemove(mb, th[h].id, th[h].t),
                         "subscribers")
            /\ Update(h, [th[h] EXCEPT !.pc = "idle"])

CallerStep(h) ==
    \/ Call(h)
    \/ DoNewTopic(h)
    \/ DoNewMessage(h)
    \/ DoSequenceLoad(h)
    \/ DoSequenceStore(h)
    \/ DoQueuePush(h)
    \/ DoNotifyAll(h)
    \/ DoRangeNext(h)
    \/ DoSend(h)
    \/ DoRespond(h)
    \/ DoGet(h)
    \/ DoSubscribeCall(h)
    \/ DoUnsubscribeFind(h)
    \/ DoRemove(h)

InitConc ==
    /\ mb = NewMessageBus
    /\ th = [h \in Threads |-> IdleThread]
    /\ env \in ConcEnvironments
    /\ sub = NoSubscriber

NextConc == (\E h \in Threads : CallerStep(h)) \/ ConsumerStep

SpecConc == InitConc /\ [][NextConc]_vars

\* ---- websocket sessions: Client.Start, readPump, writePump -------------
SessEnvironments ==
    {[names |-> {"a"}, peers |-> {"s1", "s2"}, payloads |-> {"x"},
      record |-> FALSE]}

\* the errors c.conn.ReadMessage() returns: a close frame of the peer with
\* code 1000 or with another code, the end of the stream without a close
\* frame (the library reports it as a close error, code 1006), the read
\* deadline, and a read on a connection that was closed on this side
ReadErrors == {"close_normal", "close_going_away", "eof", "timeout", "closed"}

\* the error is a close frame: ReadMessage runs the close handler set in
\* Start before it returns the error
IsCloseFrame(err) == err \in {"close_normal", "close_going_away"}

\* websocket.IsUnexpectedCloseError(err, websocket.CloseNormalClosure): err
\* is a close error whose code is not 1000
IsUnexpectedCloseError(err) == err \in {"close_going_away", "eof"}

\* Client.Start: c.ch = c.bus.Subscribe(c.id, c.topic.Name), the close
\* handler is set, go c.writePump(), go c.readPump()
Start(b, id, t) ==
    LET r == Subscribe(b, id, t) IN
    [b |-> [r.b EXCEPT !.ss = MapSet(@, r.ch,
                [rd |-> "read", conn |-> "open", err |-> "none"])],
     ch |-> r.ch]

\* readPump: ReadMessage returns err; on a close frame the close handler
\* has called Unsubscribe; the loop calls Unsubscribe when
\* IsUnexpectedCloseError, breaks, and the deferred c.conn.Close() runs
ReadError(b, c, err) ==
    LET b1 == IF IsCloseFrame(err) THEN Unsubscribe(b, c[2], c[1]).b ELSE b
        b2 == IF IsUnexpectedCloseError(err)
              THEN Unsubscribe(b1, c[2], c[1]).b ELSE b1
    IN  [b2 EXCEPT !.ss[c] = [rd |-> "done", conn |-> "closed", err |-> err]]

\* ServeHTTP, GET /t with Upgrade: websocket: NewTopic, Upgrade,
\* NewClient(conn, t, mb).Start(); the remote address id has no session
Connect(id, t) ==
    /\ th[1].pc = "idle"
    /\ Made < MaxSubs
    /\ ~(t \in DOMAIN mb.listeners /\ Exists(mb.listeners[t], id))
    /\ \E r \in {Start(NewTopic(mb, t), id, t)} :
       /\ mb' = r.b
       /\ Update(1, [IdleThread EXCEPT
             !.op = "connect", !.t = t, !.id = id, !.ch = r.ch])

\* readPump: c.conn.ReadMessage() returns err
ReadFails(c, err) ==
    /\ mb.ss[c].rd = "read"
    /\ (err = "closed") <=> (mb.ss[c].conn = "closed")
    /\ mb' = ReadError(mb, c, err)
    /\ UNCHANGED <<th, env, sub>>

\* writePump: the ticker fires and the ping cannot be written; the
\* function returns and the deferred c.conn.Close() runs
PingFails(c) ==
    /\ mb.rx[c].pc = "select"
    /\ c \notin mb.closed
    /\ mb' = [mb EXCEPT !.rx[c] = [pc |-> "exit", msg |-> ZeroMessage],
                        !.ss = ConnClose(@, c)]
    /\ UNCHANGED <<th, env, sub>>

\* a read on a connection closed on this side fails at once
ReadClosedSocket == \E c \in DOMAIN mb.ss : ReadFails(c, "closed")

SessionStep ==
    \E c \in DOMAIN mb.ss :
        PingFails(c) \/ \E err \in ReadErrors : ReadFails(c, err)

InitSess ==
    /\ mb = NewMessageBus
    /\ th = [h \in Threads |-> IdleThread]
    /\ env \in SessEnvironments
    /\ sub = NoSubscriber

NextSess ==
    \/ \E t \in env.names, p \in env.payloads : Publish(t, p)
    \/ \E id \in env.peers, t \in env.names : Connect(id, t)
    \/ ConsumerStep
    \/ SessionStep

\* the goroutines of a session keep running: a consumer takes its next
\* step, and a read on a closed connection returns
SpecSess ==
    /\ InitSess /\ [][NextSess]_vars
    /\ WF_vars(ConsumerStep) /\ WF_vars(ReadClosedSocket)

\* ---- a broker with metrics: the calls of its API with one caller
\* ---- goroutine, as in Spec
MetricsEnvironments ==
    {[names |-> {"a"}, peers |-> {"s1", "s2"}, payloads |-> {"x"},
      record |-> FALSE]}

\* the counters a run observes: the one of the fan-out, or one of those
\* of the registry and the listener sets
ObservedInFanOut == {{"dropped"}}
ObservedInRegistry == {{"topics"}, {"subscribers"}}

\* the gauge bus/subscribers is kept within -MaxGauge .. MaxGauge
MaxGauge == 2

\* the value of a counter, 0 when the run does not observe it
Value(b, name) == IF name \in DOMAIN b.metrics THEN b.metrics[name] ELSE 0

\* a call of mb.Subscribe(id, t) while the gauge is below its bound
CountedSubscribe(id, t) ==
    /\ Value(mb, "subscribers") < MaxGauge
    /\ DoSubscribe(id, t)

\* a call of mb.Unsubscribe(id, t) while the gauge is above its bound
CountedUnsubscribe(id, t) ==
    /\ Value(mb, "subscribers") > -MaxGauge
    /\ DoUnsubscribe(id, t)

InitMetrics ==
    /\ mb \in {NewMessageBusWithMetrics(o) : o \in ObservedInFanOut}
    /\ th = [h \in Threads |-> IdleThread]
    /\ env \in MetricsEnvironments
    /\ sub = NoSubscriber

InitGauges ==
    /\ mb \in {NewMessageBusWithMetrics(o) : o \in ObservedInRegistry}
    /\ th = [h \in Threads |-> IdleThread]
    /\ env \in MetricsEnvironments
    /\ sub = NoSubscriber

NextMetrics ==
    \/ \E t \in env.names, p \in env.payloads : Publish(t, p)
    \/ \E t \in env.names : Pull(t)
    \/ \E id \in env.peers, t \in env.names : CountedSubscribe(id, t)
    \/ \E id \in env.peers, t \in env.names : CountedUnsubscribe(id, t)
    \/ ConsumerStep

SpecMetrics == InitMetrics /\ [][NextMetrics]_vars

SpecGauges == InitGauges /\ [][NextMetrics]_vars

\* ---- websocket sessions of a broker with metrics, whose writes can fail
\* one peer that connects again and again
OnePeerEnvironments ==
    {[names |-> {"a"}, peers |-> {"s1"}, payloads |-> {"x"},
      record |-> FALSE]}

\* the counters a run with sessions observes
ObservedBySessions == {{"errors", "delivered"}}

\* writePump: c.conn.WriteJSON(msg) returns an error
WriteFails == \E c \in DOMAIN mb.rx : RxWriteFails(c)

InitWrite ==
    /\ mb \in {NewMessageBusWithMetrics(o) : o \in ObservedBySessions}
    /\ th = [h \in Threads |-> IdleThread]
    /\ env \in OnePeerEnvironments
    /\ sub = NoSubscriber

NextWrite ==
    \/ \E t \in env.names, p \in env.payloads : Publish(t, p)
    \/ \E id \in env.peers, t \in env.names : Connect(id, t)
    \/ ConsumerStep
    \/ WriteFails
    \/ SessionStep

SpecWrite == InitWrite /\ [][NextWrite]_vars

\* ---- websocket sessions that the application can unsubscribe with a
\* ---- call of mb.Unsubscribe
InitShutdown ==
    /\ mb = NewMessageBus
    /\ th = [h \in Threads |-> IdleThread]
    /\ env \in OnePeerEnvironments
    /\ sub = NoSubscriber

NextShutdown ==
    \/ \E t \in env.names, p \in env.payloads : Publish(t, p)
    \/ \E id \in env.peers, t \in env.names : Connect(id, t)
    \/ \E id \in env.peers, t \in env.names : DoUnsubscribe(id, t)
    \/ ConsumerStep
    \/ SessionStep

\* the goroutines of a session keep running, as in SpecSess
SpecShutdown ==
    /\ InitShutdown /\ [][NextShutdown]_vars
    /\ WF_vars(ConsumerStep) /\ WF_vars(ReadClosedSocket)

\* ------------------------------------------------------- client package
\* seconds
DefaultReconnectInterval == 2
DefaultMaxReconnectInterval == 64

\* the Options the runs construct their Client with, in seconds (0: unset)
ClientOptions ==
    {[ReconnectInterval |-> 0, MaxReconnectInterval |-> 0],
     [ReconnectInterval |-> 1, MaxReconnectInterval |-> 2],
     [ReconnectInterval |-> 3, MaxReconnectInterval |-> 2]}
\* dial attempts, connection failures and published messages of one run
MaxDials == 3
MaxFaults == 2
MaxMsgs == 1

\* s.conn == nil
NilConn == 0

\* NewClient(url, options)
NewClient(options) ==
    [reconnectInterval |->
         IF options.ReconnectInterval # 0 THEN options.ReconnectInterval
         ELSE DefaultReconnectInterval,
     maxReconnectInterval |->
         IF options.MaxReconnectInterval # 0
         THEN options.MaxReconnectInterval
         ELSE DefaultMaxReconnectInterval]

\* NewSubscriber(client, topic, handler)
NewSubscriber(client) ==
    [conn |-> NilConn,
     reconnectInterval |-> client.reconnectInterval,
     maxReconnectInterval |-> client.maxReconnectInterval]

\* a Backoff that goes on from the attempts of the earlier loops
BackoffCarried(s) ==
    [Min |-> s.reconnectInterval, Max |-> s.maxReconnectInterval,
     attempt |-> sub.total]

\* b := &backoff.Backoff{Min, Max, Factor: 2, Jitter: false} in connect
Backoff(s) ==
    [Min |-> s.reconnectInterval, Max |-> s.maxReconnectInterval,
     attempt |-> 0]

\* b.ForAttempt(attempt) with Factor 2 and no jitter
ForAttempt(b, attempt) ==
    IF b.Min >= b.Max THEN b.Max
    ELSE LET dur == b.Min * 2^attempt
         IN  IF dur < b.Min THEN b.Min
             ELSE IF dur > b.Max THEN b.Max ELSE dur

\* a Duration that does not count the attempt
DurationSame(b) == [d |-> ForAttempt(b, b.attempt), b |-> b]

\* d := b.Duration()
Duration(b) ==
    [d |-> ForAttempt(b, b.attempt), b |-> [b EXCEPT !.attempt = @ + 1]]

\* a goroutine of the client: fn is the function it runs, conn the s.conn
\* its blocked or failed call was made on (readLoop, writeLoop);
\* iter counts the iterations of connect's loop, slept is the delay slept
\* since the goroutine's last dial
Goroutine(fn, pc) ==
    [fn |-> fn, pc |-> pc, b |-> [Min |-> 0, Max |-> 0, attempt |-> 0],
     d |-> 0, iter |-> 0, slept |-> 0, conn |-> NilConn]

\* go s.connect(), up to the loop
GoConnect(s) == [Goroutine("connect", "dial") EXCEPT !.b = Backoff(s)]

\* a connection websocket.DefaultDialer.Dial returned: closed by a Close of
\* the client, broken by the network or the peer; inbox holds the ids of
\* the messages the broker has written on it and the client has not read
NewConn == [closed |-> FALSE, broken |-> FALSE, inbox |-> << >>]

\* conn.Close()
Close(conns, c) == [conns EXCEPT ![c].closed = TRUE]

\* the state of a client process before Start
NewProcess(options) ==
    [s |-> NewSubscriber(NewClient(options)),
     go |-> EmptyBag, conns |-> << >>, app |-> "new", stopped |-> FALSE,
     dials |-> 0, faults |-> 0, seq |-> 0, total |-> 0,
     handled |-> [m \in 0 .. MaxMsgs - 1 |-> 0]]

\* a connection the broker still writes to
Live(p, c) == ~p.conns[c].closed /\ ~p.conns[c].broken

\* s.closeAndReconnect() with s.conn # nil
closeAndReconnect(p) ==
    [p EXCEPT !.conns = Close(@, p.s.conn),
              !.go = @ (+) SetToBag({GoConnect(p.s)})]

\* connect, after a Dial that returned an error, without the Sleep
DialFailedNoSleep(g) == [g EXCEPT !.pc = "dial", !.slept = 0]

\* connect, after a Dial that returned an error: log, then time.Sleep(d)
DialFailed(g) == [g EXCEPT !.pc = "sleep", !.slept = 0]

\* ---- the client process: one action per statement that blocks or that
\* ---- reads or writes s.conn. sub.go is the bag of the goroutines that
\* ---- have not returned.
Spawn(gs, g) == gs (+) SetToBag({g})
Returned(gs, g) == gs (-) SetToBag({g})
Moved(gs, g, h) == Spawn(Returned(gs, g), h)

\* s.Start(): go s.connect()
SubscriberStart ==
    /\ sub.app = "new"
    /\ sub' = [sub EXCEPT !.app = "started",
                          !.go = Spawn(@, GoConnect(sub.s))]
    /\ UNCHANGED <<mb, th, env>>

\* connect: d := b.Duration(); conn, _, err :=
\* websocket.DefaultDialer.Dial(s.url, nil). With err == nil: s.conn = conn
\* under the lock, go s.readLoop(), go s.writeLoop(), break. Otherwise
\* the goroutine is about to sleep.
connectDial(g) ==
    /\ g.fn = "connect" /\ g.pc = "dial"
    /\ sub.dials < MaxDials
    /\ \E r \in {Duration(g.b)} :
          \/ sub' = [sub EXCEPT
                        !.dials = @ + 1, !.total = @ + 1,
                        !.conns = Append(@, NewConn),
                        !.s.conn = Len(sub.conns) + 1,
                        !.go = Spawn(Spawn(Returned(@, g),
                                           Goroutine("read", "call")),
                                     Goroutine("write", "tick"))]
          \/ sub' = [sub EXCEPT
                        !.dials = @ + 1, !.total = @ + 1,
                        !.go = Moved(@, g,
                                   DialFailed([g EXCEPT !.b = r.b, !.d = r.d,
                                                        !.iter = @ + 1]))]
    /\ UNCHANGED <<mb, th, env>>

\* connect: time.Sleep(d); continue
connectSleep(g) ==
    /\ g.fn = "connect" /\ g.pc = "sleep"
    /\ sub' = [sub EXCEPT
                  !.go = Moved(@, g, [g EXCEPT !.pc = "dial",
                                               !.slept = @ + g.d])]
    /\ UNCHANGED <<mb, th, env>>

\* readLoop: s.conn.SetReadLimit(...) and each s.conn.ReadJSON(&msg) load
\* s.conn and block in the read of that connection; a nil s.conn panics
readCall(g) ==
    /\ g.fn = "read" /\ g.pc = "call"
    /\ sub' = IF sub.s.conn = NilConn
              THEN [sub EXCEPT !.app = "panic"]
              ELSE [sub EXCEPT
                       !.go = Moved(@, g, [g EXCEPT !.pc = "reading",
                                                    !.conn = sub.s.conn])]
    /\ UNCHANGED <<mb, th, env>>

\* readLoop: ReadJSON returns a message; err = s.handler(msg)
readMessage(g) ==
    /\ g.fn = "read" /\ g.pc = "reading"
    /\ ~sub.conns[g.conn].closed
    /\ sub.conns[g.conn].inbox # << >>
    /\ sub' = [sub EXCEPT
                  !.handled[Head(sub.conns[g.conn].inbox)] = @ + 1,
                  !.conns[g.conn].inbox = Tail(@),
                  !.go = Moved(@, g, [g EXCEPT !.pc = "call",
                                               !.conn = NilConn])]
    /\ UNCHANGED <<mb, th, env>>

\* readLoop: ReadJSON returns an error
readFails(g) ==
    /\ g.fn = "read" /\ g.pc = "reading"
    /\ \/ sub.conns[g.conn].closed
       \/ sub.conns[g.conn].broken /\ sub.conns[g.conn].inbox = << >>
    /\ sub' = [sub EXCEPT
                  !.go = Moved(@, g, [g EXCEPT !.pc = "reconnect"])]
    /\ UNCHANGED <<mb, th, env>>

\* readLoop and writeLoop: s.closeAndReconnect(); return. s.conn.Close()
\* on a nil s.conn panics
reconnect(g) ==
    /\ g.pc = "reconnect"
    /\ sub' = IF sub.s.conn = NilConn
              THEN [sub EXCEPT !.app = "panic"]
              ELSE [closeAndReconnect(sub) EXCEPT
                       !.go = IF g.fn = "read" THEN Returned(@, g)
                              ELSE Moved(@, g, [g EXCEPT !.pc = "deferred"])]
    /\ UNCHANGED <<mb, th, env>>

\* writeLoop: <-ticker.C; s.conn.SetWriteDeadline(...);
\* s.conn.WriteMessage(websocket.PingMessage, message) returns an error,
\* or s.conn is nil and the call panics
writePing(g) ==
    /\ g.fn = "write" /\ g.pc = "tick"
    /\ IF sub.s.conn = NilConn THEN TRUE ELSE ~Live(sub, sub.s.conn)
    /\ sub' = IF sub.s.conn = NilConn
              THEN [sub EXCEPT !.app = "panic"]
              ELSE [sub EXCEPT
                       !.go = Moved(@, g, [g EXCEPT !.pc = "reconnect",
                                                    !.conn = sub.s.conn])]
    /\ UNCHANGED <<mb, th, env>>

\* writeLoop's deferred func: ticker.Stop(); if s.conn != nil
\* { s.conn.Close() }
writeDeferred(g) ==
    /\ g.fn = "write" /\ g.pc = "deferred"
    /\ sub' = [sub EXCEPT
                  !.conns = IF sub.s.conn = NilConn THEN @
                            ELSE Close(@, sub.s.conn),
                  !.go = Returned(@, g)]
    /\ UNCHANGED <<mb, th, env>>

\* s.Stop(), up to err = s.conn.Close(); a nil s.conn panics
Stop ==
    /\ sub.app = "started"
    /\ sub' = IF sub.s.conn = NilConn
              THEN [sub EXCEPT !.app = "panic"]
              ELSE [sub EXCEPT !.conns = Close(@, sub.s.conn),
                               !.app = "stopping", !.stopped = TRUE]
    /\ UNCHANGED <<mb, th, env>>

\* s.Stop(): s.conn = nil
StopNil ==
    /\ sub.app = "stopping"
    /\ sub' = [sub EXCEPT !.s.conn = NilConn, !.app = "stopped"]
    /\ UNCHANGED <<mb, th, env>>

\* the network or the peer ends connection c
NetFail(c) ==
    /\ sub.app # "panic"
    /\ sub.faults < MaxFaults
    /\ Live(sub, c)
    /\ sub' = [sub EXCEPT !.conns[c].broken = TRUE, !.faults = @ + 1]
    /\ UNCHANGED <<mb, th, env>>

\* the broker assigns the next id and its fan-out sends the message once
\* to the session of every connection, each session being at its receive
BrokerPublish ==
    /\ sub.app # "panic"
    /\ sub.seq < MaxMsgs
    /\ sub' = [sub EXCEPT
                  !.seq = @ + 1,
                  !.conns = [c \in DOMAIN sub.conns |->
                                IF Live(sub, c)
                                THEN [sub.conns[c] EXCEPT
                                         !.inbox = Append(@, sub.seq)]
                                ELSE sub.conns[c]]]
    /\ UNCHANGED <<mb, th, env>>

\* the goroutines that can run: a panic in any goroutine ends the process
Goroutines == IF sub.app = "panic" THEN {} ELSE BagToSet(sub.go)

\* a step of a goroutine other than the receipt of a message
ReconnectStep ==
    \/ \E g \in Goroutines : connectDial(g)
    \/ \E g \in Goroutines : connectSleep(g)
    \/ \E g \in Goroutines : readCall(g)
    \/ \E g \in Goroutines : readFails(g)
    \/ \E g \in Goroutines : reconnect(g)
    \/ \E g \in Goroutines : writePing(g)
    \/ \E g \in Goroutines : writeDeferred(g)

GoroutineStep ==
    \/ ReconnectStep
    \/ \E g \in Goroutines : readMessage(g)

InitClient ==
    /\ mb = NewMessageBus
    /\ th = [h \in Threads |-> IdleThread]
    /\ env \in SessEnvironments
    /\ sub \in {NewProcess(o) : o \in ClientOptions}

NextClient ==
    \/ SubscriberStart
    \/ Stop
    \/ StopNil
    \/ GoroutineStep
    \/ \E c \in DOMAIN sub.conns : NetFail(c)
    \/ BrokerPublish

SpecClient ==
    InitClient /\ [][NextClient]_vars
    /\ WF_vars(GoroutineStep) /\ WF_vars(StopNil)

\* the runs in which the application never calls Stop and nothing is
\* published: the subscription only connects and reconnects
NextReconnect ==
    \/ SubscriberStart
    \/ ReconnectStep
    \/ \E c \in DOMAIN sub.conns : NetFail(c)

SpecReconnect ==
    InitClient /\ [][NextReconnect]_vars /\ WF_vars(ReconnectStep)

\* ------------------------------------------------------ Client.Pull
\* the body of a response: the JSON of a message, or text that is no JSON
JSONBody(msg) == [kind |-> "json", msg |-> msg]
TextBody == [kind |-> "text", msg |-> ZeroMessage]

\* a *msgbus.Message: nil, or a pointer to the message val
NilMessage == [nil |-> TRUE, val |-> ZeroMessage]
Ptr(msg) == [nil |-> FALSE, val |-> msg]

\* the answer of the broker's ServeHTTP to GET /t, r being what mb.Get
\* returned: the marshalled message, or http.Error with StatusNotFound
Response(r) ==
    IF r.ok THEN [status |-> StatusOK, body |-> JSONBody(r.msg)]
    ELSE [status |-> StatusNotFound, body |-> TextBody]

\* the answers of a server between the client and the broker that fails:
\* an error status with a text body or with a JSON object as body
GatewayResponses ==
    {[status |-> StatusInternalServerError, body |-> TextBody],
     [status |-> StatusInternalServerError, body |-> JSONBody(ZeroMessage)]}

\* json.NewDecoder(res.Body).Decode(&msg): a JSON object fills a new
\* Message with the fields it has, anything else is an error
Decode(body) ==
    IF body.kind = "json" THEN [msg |-> Ptr(body.msg), err |-> FALSE]
    ELSE [msg |-> NilMessage, err |-> TRUE]

\* c.Pull(topic), from the response on: the named results msg, err
ClientPull(res) ==
    IF res.status = StatusNotFound
    THEN [msg |-> NilMessage, err |-> FALSE]
    ELSE Decode(res.body)

\* the client has made no request yet
NoPull == [res |-> [status |-> 0, body |-> TextBody],
           out |-> [msg |-> NilMessage, err |-> FALSE]]

\* c.Pull(t) against the broker: ServeHTTP runs NewTopic and Get and
\* answers, and Pull maps the response
PullDirect(t) ==
    /\ th[1].pc = "idle"
    /\ \E r \in {Get(NewTopic(mb, t), t)} :
       /\ mb' = r.b
       /\ th' = [th EXCEPT ![1] =
                    [IdleThread EXCEPT
                        !.op = "pull", !.t = t, !.msg = r.msg, !.ok = r.ok,
                        !.fetched = r.fetched,
                        !.status = Response(r).status]]
       /\ sub' = [res |-> Response(r), out |-> ClientPull(Response(r))]
       /\ env' = env

\* c.Pull(t) answered by a failing server in between
PullGateway(t) ==
    /\ th[1].pc = "idle"
    /\ \E res \in GatewayResponses :
          sub' = [res |-> res, out |-> ClientPull(res)]
    /\ UNCHANGED <<mb, th, env>>

InitPull ==
    /\ mb = NewMessageBus
    /\ th = [h \in Threads |-> IdleThread]
    /\ env \in Environments
    /\ sub = NoPull

NextPull ==
    \/ \E t \in env.names, p \in env.payloads : Publish(t, p)
    \/ \E t \in env.names : PullDirect(t)
    \/ \E t \in env.names : PullGateway(t)

SpecPull == InitPull /\ [][NextPull]_vars

\* ------------------------------------------------------------ properties
SequenceOf(b, t) == IF t \in DOMAIN b.topics THEN b.topics[t].Sequence ELSE 0
QueueOf(b, t) == IF t \in DOMAIN b.queues THEN b.queues[t] ELSE << >>
Subscribed(b, id, t) == t \in DOMAIN b.listeners /\ id \in b.listeners[t].ids
\* the channels of the current subscribers of t
ChannelsOf(b, t) ==
    IF t \in DOMAIN b.listeners
    THEN {b.listeners[t].chs[id] : id \in DOMAIN b.listeners[t].chs}
    ELSE {}


\* the steps of the four calls, told from their record in th before the
\* call itself is evaluated
PublishStep(t, p) ==
    /\ th'[1].op = "publish" /\ th'[1].t = t /\ th'[1].p = p
    /\ Publish(t, p)
PullStep(t) ==
    /\ th'[1].op = "pull" /\ th'[1].t = t
    /\ Pull(t)
SubscribeStep(id, t) ==
    /\ th'[1].op = "subscribe" /\ th'[1].t = t /\ th'[1].id = id
    /\ DoSubscribe(id, t)
UnsubscribeStep(id, t) ==
    /\ th'[1].op = "unsubscribe" /\ th'[1].t = t /\ th'[1].id = id
    /\ DoUnsubscribe(id, t)

\* C1: a publish on topic t gives its message the id the counter of t held
\* and leaves the counter one higher; no other step changes any counter.
\* With every counter starting at 0, the k-th message of a topic has id k.
C1_SequenceContiguous ==
    [][/\ \A t \in TopicNames, p \in Payloads :
            PublishStep(t, p) =>
                /\ th'[1].msg.ID = SequenceOf(mb, t)
                /\ SequenceOf(mb', t) = SequenceOf(mb, t) + 1
                /\ \A u \in TopicNames \ {t} :
                       SequenceOf(mb', u) = SequenceOf(mb, u)
       /\ (~ \E t \in TopicNames, p \in Payloads : PublishStep(t, p)) =>
              \A t \in TopicNames : SequenceOf(mb', t) = SequenceOf(mb, t)
      ]_vars

\* the message after max-queue-size others got the next id and left the
\* counter one higher, on a full queue and with no subscriber receiving it
C1_Witness ==
    /\ th[1].op = "publish"
    /\ th[1].msg.ID = MaxQueueSize
    /\ mb.topics[th[1].t].Sequence = MaxQueueSize + 1
    /\ Len(mb.queues[th[1].t]) = MaxQueueSize
    /\ ChannelsOf(mb, th[1].t) # {}
    /\ th[1].n = 0

\* C2: with concurrent publishes, no two messages of a topic that are being
\* published hold the same id, and the messages in a topic's queue carry
\* consecutive ids in the order they entered it (none repeated, none
\* skipped, none out of order).
C2_ConcurrentPublishOrdered ==
    /\ \A g, h \in Threads :
          (/\ g # h
           /\ th[g].op = "publish" /\ th[h].op = "publish"
           /\ th[g].pc \in {"seq_load", "seq_store", "push", "notify", "respond"}
           /\ th[h].pc \in {"seq_load", "seq_store", "push", "notify", "respond"}
           /\ th[g].t = th[h].t) => th[g].msg.ID # th[h].msg.ID
    /\ \A t \in DOMAIN mb.queues :
          \A i \in 1..(Len(mb.queues[t]) - 1) :
              mb.queues[t][i + 1].ID = mb.queues[t][i].ID + 1

\* C3: the pull queue of every topic holds at most max-queue-size messages.
C3_QueueBounded ==
    \A t \in DOMAIN mb.queues : Len(mb.queues[t]) <= MaxQueueSize

\* a publish on a topic whose queue is full
C3_Witness ==
    /\ th[1].op = "publish"
    /\ th[1].msg.ID >= MaxQueueSize
    /\ Len(mb.queues[th[1].t]) = MaxQueueSize

\* C4: while a topic has not overflowed, a publish appends exactly its
\* message (id, topic, payload) to the queue, and a pull on a non-empty
\* queue returns ok with the head, the oldest message not yet pulled, and
\* removes it: n publishes then n pulls return ids 0..n-1 in order.
C4_PullFIFO ==
    [][/\ \A t \in TopicNames, p \in Payloads :
            PublishStep(t, p) /\ Len(QueueOf(mb, t)) < MaxQueueSize =>
                mb'.queues[t] =
                    Append(QueueOf(mb, t),
                           [ID |-> SequenceOf(mb, t), Topic |-> t,
                            Payload |-> p])
       /\ \A t \in TopicNames :
            (/\ PullStep(t)
             /\ QueueOf(mb, t) # << >>
             /\ SequenceOf(mb, t) <= MaxQueueSize) =>
                /\ th'[1].ok
                /\ th'[1].msg = Head(mb.queues[t])
                /\ th'[1].msg.ID = SequenceOf(mb, t) - Len(mb.queues[t])
                /\ th'[1].msg.Topic = t
                /\ mb'.queues[t] = Tail(mb.queues[t])
      ]_vars

\* max-queue-size publishes, then as many pulls: the last one returned the
\* last id and emptied the queue
C4_Witness ==
    /\ th[1].op = "pull"
    /\ th[1].ok
    /\ th[1].msg.ID = MaxQueueSize - 1
    /\ th[1].msg.Payload = "y"
    /\ mb.topics[th[1].t].Sequence = MaxQueueSize
    /\ mb.queues[th[1].t] = << >>

\* C5: a publish on a full queue drops the head and appends; a pull returns
\* the oldest id still queued, which after n > max-queue-size publishes is
\* n - max-queue-size, then the following ids in order, and ok=false once
\* the queue is empty.
C5_DropOldest ==
    [][/\ \A t \in TopicNames, p \in Payloads :
            PublishStep(t, p) /\ Len(QueueOf(mb, t)) = MaxQueueSize =>
                mb'.queues[t] = Append(Tail(mb.queues[t]), th'[1].msg)
       /\ \A t \in TopicNames :
            PullStep(t) =>
                IF QueueOf(mb, t) = << >>
                THEN ~th'[1].ok /\ QueueOf(mb', t) = << >>
                ELSE /\ th'[1].ok
                     /\ th'[1].msg.ID = SequenceOf(mb, t) - Len(mb.queues[t])
                     /\ mb'.queues[t] = Tail(mb.queues[t])
      ]_vars

\* more than max-queue-size publishes: a pull on the full queue returned
\* the oldest of the last max-queue-size ids
C5_Witness ==
    /\ th[1].op = "pull"
    /\ th[1].ok
    /\ mb.topics[th[1].t].Sequence > MaxQueueSize
    /\ th[1].msg.ID = mb.topics[th[1].t].Sequence - MaxQueueSize
    /\ Len(mb.queues[th[1].t]) = MaxQueueSize - 1

\* C6: whatever the subscribers of a topic are doing, a publish on it can
\* run to its end, and it leaves its message at the tail of the queue.
C6_PublishNeverWaits ==
    \A t \in env.names, p \in env.payloads :
        (th[1].pc = "idle" /\ Published < MaxSeq) =>
            ENABLED (/\ Publish(t, p)
                     /\ mb'.queues[t][Len(mb'.queues[t])] = th'[1].msg
                     /\ th'[1].msg.Payload = p)

\* a publish completed while one subscriber was busy writing an earlier
\* message and another had not reached its receive
C6_Witness ==
    /\ th[1].op = "publish"
    /\ th[1].n = 0
    /\ \E c, d \in ChannelsOf(mb, th[1].t) :
          /\ mb.rx[c].pc = "write"
          /\ mb.rx[c].msg # th[1].msg
          /\ mb.rx[d].pc = "start"

\* C7: in the fan-out of a publish every subscriber blocked in its receive
\* gets the message, every other subscriber is left as it was, and the
\* count NotifyAll returns is the number of subscribers that got it.
C7_DropOnlyForBusy ==
    [][\A t \in TopicNames, p \in Payloads :
          PublishStep(t, p) =>
              /\ \A c \in ChannelsOf(mb, t) :
                    IF mb.rx[c].pc = "select"
                    THEN mb'.rx[c] = [pc |-> "write", msg |-> th'[1].msg]
                    ELSE mb'.rx[c] = mb.rx[c]
              /\ th'[1].n =
                    Cardinality({c \in ChannelsOf(mb, t) :
                                    mb.rx[c].pc = "select"})
      ]_vars

\* a publish that one of two subscribers received and the other did not
C7_Witness ==
    /\ th[1].op = "publish"
    /\ th[1].n = 1
    /\ \E c, d \in ChannelsOf(mb, th[1].t) :
          /\ mb.rx[c] = [pc |-> "write", msg |-> th[1].msg]
          /\ mb.rx[d].pc = "write"
          /\ mb.rx[d].msg # th[1].msg

\* C8: every message a consumer receives on its channel has a higher id
\* than the message it received before on that channel.
C8_SubscriberIdsIncreasing ==
    [][\A c \in DOMAIN mb.rx :
          (/\ mb.rx[c].pc = "select"
           /\ mb'.rx[c].pc = "write"
           /\ mb.rx[c].msg # ZeroMessage) =>
              mb'.rx[c].msg.ID > mb.rx[c].msg.ID
      ]_vars

\* C9: Subscribe(id, t) for an id that is subscribed to t returns the
\* channel the id already has and changes no listener set and makes no
\* channel; every listener set has one open channel per id, no two ids
\* sharing one.
C9_SubscribeIdempotent ==
    [][/\ \A id \in Ids, t \in TopicNames :
            SubscribeStep(id, t) /\ Subscribed(mb, id, t) =>
                /\ th'[1].ch = mb.listeners[t].chs[id]
                /\ mb'.listeners = mb.listeners
                /\ mb'.made = mb.made
                /\ mb'.closed = mb.closed
       /\ \A t \in DOMAIN mb'.listeners :
            LET ls == mb'.listeners[t] IN
            /\ DOMAIN ls.chs = ls.ids
            /\ \A i, j \in ls.ids : ls.chs[i] = ls.chs[j] => i = j
            /\ \A i \in ls.ids : ls.chs[i] \notin mb'.closed
      ]_vars

\* a second Subscribe(id, t) returned the first channel, on which the
\* consumer has meanwhile received a message
C9_Witness ==
    /\ th[1].op = "subscribe"
    /\ th[1].ch = <<th[1].t, th[1].id, 1>>
    /\ mb.made[<<th[1].t, th[1].id>>] = 1
    /\ mb.rx[th[1].ch].pc = "write"
    /\ Subscribed(mb, th[1].id, th[1].t)

\* C10: Unsubscribe(id, t) for an id that is not subscribed to t returns
\* normally and changes nothing: no channel is closed, and the registry, the
\* queues, the listener sets and the receivers stay as they were.
C10_UnsubscribeNoop ==
    [][\A id \in Ids, t \in TopicNames :
          UnsubscribeStep(id, t) /\ ~Subscribed(mb, id, t) =>
              /\ th'[1].pc = "idle"
              /\ mb'.closed = mb.closed
              /\ mb'.topics = mb.topics
              /\ mb'.queues = mb.queues
              /\ mb'.listeners = mb.listeners
              /\ mb'.rx = mb.rx
      ]_vars

\* an Unsubscribe of an id that never subscribed to a topic that has
\* another subscriber
C10_Witness ==
    /\ th[1].op = "unsubscribe"
    /\ th[1].pc = "idle"
    /\ th[1].t \in DOMAIN mb.listeners
    /\ mb.made[<<th[1].t, th[1].id>>] = 0
    /\ mb.listeners[th[1].t].ids # {}


\* C14: a pull changes no channel, receiver or listener set; a publish
\* leaves its message at the tail of the queue however many subscribers
\* took it, with the messages queued before it (but for the head a full
\* queue drops); no step other than a pull or a publish on t changes the
\* queue of t, and a consumer's steps change no queue.
C14_PullAndDeliveryIndependent ==
    [][/\ \A t \in TopicNames :
            PullStep(t) =>
                /\ mb'.rx = mb.rx
                /\ mb'.listeners = mb.listeners
                /\ mb'.closed = mb.closed
                /\ mb'.made = mb.made
       /\ \A t \in TopicNames, p \in Payloads :
            PublishStep(t, p) =>
                mb'.queues[t] =
                    Append(IF Len(QueueOf(mb, t)) = MaxQueueSize
                           THEN Tail(mb.queues[t]) ELSE QueueOf(mb, t),
                           th'[1].msg)
       /\ \A t \in TopicNames :
            (~PullStep(t) /\ ~ \E p \in Payloads : PublishStep(t, p)) =>
                QueueOf(mb', t) = QueueOf(mb, t)
       /\ ConsumerStep => mb'.queues = mb.queues
      ]_vars

\* a pull returned a message that a subscriber of the topic was sent and
\* is still writing
C14_Witness ==
    /\ th[1].op = "pull"
    /\ th[1].ok
    /\ \E c \in ChannelsOf(mb, th[1].t) :
          mb.rx[c] = [pc |-> "write", msg |-> th[1].msg]

\* C15: a Subscribe hands its new channel no message, and a consumer
\* receives a message only in the step of the publish that assigned it:
\* a message published before a Subscribe is never sent on its channel,
\* also while it is in the queue.
C15_NoReplay ==
    [][/\ \A c \in DOMAIN mb'.rx \ DOMAIN mb.rx :
            mb'.rx[c].pc = "start" /\ mb'.rx[c].msg = ZeroMessage
       /\ \A c \in DOMAIN mb.rx :
            (mb'.rx[c].pc = "write" /\ mb.rx[c].pc # "write") =>
                \E t \in TopicNames, p \in Payloads :
                    /\ PublishStep(t, p)
                    /\ c \in ChannelsOf(mb, t)
                    /\ mb'.rx[c].msg =
                          [ID |-> SequenceOf(mb, t), Topic |-> t,
                           Payload |-> p]
      ]_vars

\* a subscriber that has received nothing waits in its receive while the
\* queue of its topic holds messages
C15_Witness ==
    /\ env.record
    /\ th[1].op = "subscribe"
    /\ th[1].ch \in DOMAIN mb.rx
    /\ mb.rx[th[1].ch] = [pc |-> "select", msg |-> ZeroMessage]
    /\ QueueOf(mb, th[1].t) # << >>
    /\ mb.made[<<th[1].t, th[1].id>>] = 1

\* C16: a pull on a topic whose queue is empty or was never made returns
\* ok=false and Message{}, is answered with status 404, makes no increment
\* of bus/fetched, and changes no queue, counter, channel or listener set.
C16_PullEmpty ==
    [][\A t \in TopicNames :
          PullStep(t) /\ QueueOf(mb, t) = << >> =>
              /\ ~th'[1].ok
              /\ th'[1].msg = ZeroMessage
              /\ th'[1].status = StatusNotFound
              /\ th'[1].fetched = 0
              /\ mb'.queues = mb.queues
              /\ SequenceOf(mb', t) = SequenceOf(mb, t)
              /\ mb'.rx = mb.rx
              /\ mb'.listeners = mb.listeners
      ]_vars

\* a pull on a queue that earlier pulls have emptied
C16_Witness ==
    /\ th[1].op = "pull"
    /\ th[1].status = StatusNotFound
    /\ th[1].t \in DOMAIN mb.queues
    /\ mb.queues[th[1].t] = << >>
    /\ mb.topics[th[1].t].Sequence > 0

\* C17: a POST whose body is longer than max-payload-size is answered
\* with status 413 and changes nothing in the broker.
C17_OversizeRejected ==
    [][\A t \in TopicNames, p \in Payloads :
          PublishStep(t, p) /\ Len(p) > MaxPayloadSize =>
              /\ th'[1].status = StatusRequestEntityTooLarge
              /\ mb' = mb
      ]_vars


\* every channel a run can make
Channels == {<<t, id, k>> : t \in TopicNames, id \in Ids, k \in 1..MaxSubs}

\* C12: when the read goroutine of a session has ended on a read error,
\* whatever the error, the session's channel is out of the listener set
\* and closed, and its connection is closed.
C12_ReadErrorUnsubscribes ==
    \A c \in DOMAIN mb.ss :
        mb.ss[c].rd = "done" =>
            /\ c \notin ChannelsOf(mb, c[1])
            /\ c \in mb.closed
            /\ mb.ss[c].conn = "closed"

\* C13: a session whose write goroutine has returned on a failed ping
\* (its channel not closed by the bus) ends: its read goroutine returns,
\* and its channel is taken out of the listener set and closed.
C13_PingFailureUnsubscribes ==
    \A c \in Channels :
        (/\ c \in DOMAIN mb.ss
         /\ mb.rx[c].pc = "exit"
         /\ c \notin mb.closed)
        ~> (/\ c \in DOMAIN mb.ss
            /\ mb.ss[c].rd = "done"
            /\ c \notin ChannelsOf(mb, c[1])
            /\ c \in mb.closed)

\* C18: a publish on t is received, with the id the counter held, the
\* topic and the payload, by every session connected to t that is not
\* being sent an earlier message.
C18_ConnectedReceivesNext ==
    [][\A t \in TopicNames, p \in Payloads :
          PublishStep(t, p) =>
              \A c \in ChannelsOf(mb, t) \cap DOMAIN mb.ss :
                  (/\ mb.ss[c].conn = "open"
                   /\ mb.ss[c].rd = "read"
                   /\ mb.rx[c].pc # "write") =>
                      mb'.rx[c] =
                          [pc |-> "write",
                           msg |-> [ID |-> SequenceOf(mb, t), Topic |-> t,
                                    Payload |-> p]]
      ]_vars


\* C11: of the callers that run Unsubscribe for one (id, topic) at most
\* one gets past ls.Exists(id) into ls.Remove(id), where it closes the
\* channel still registered for the id; no close() is given a channel
\* that is closed or gone.
C11_ClosedAtMostOnce ==
    /\ \A h1, h2 \in Threads :
          (/\ th[h1].pc = "remove" /\ th[h2].pc = "remove"
           /\ th[h1].id = th[h2].id /\ th[h1].t = th[h2].t) => h1 = h2
    /\ \A h \in Threads :
          /\ th[h].pc = "remove" => ~RemovePanics(mb, th[h].id, th[h].t)
          /\ ~(th[h].op = "unsubscribe" /\ th[h].pc = "panic")

\* the caller is inside a broker method, between its first and its last
\* access to the registry, the queues or the listener sets
InBroker(h) ==
    th[h].pc \in {"seq_load", "seq_store", "range", "send", "remove"}

\* C19: the broker methods exclude each other: at most one caller at a
\* time is inside NewMessage, Put, Get, Subscribe or Unsubscribe.
C19_OneCallerInBroker ==
    Cardinality({h \in Threads : InBroker(h)}) <= 1

\* C20: while a publish ranges over the listener map of its topic no
\* other caller changes that map, the fan-out sends on no closed channel,
\* and no publish panics.
C20_FanOutNeverPanics ==
    [][\A h \in Threads :
          th[h].op = "publish" =>
              /\ th[h].pc \in {"range", "send"} =>
                    mb'.listeners[th[h].t].chs = mb.listeners[th[h].t].chs
              /\ th'[h].pc = "send" => th'[h].ch \notin mb'.closed
              /\ th'[h].pc # "panic"
      ]_vars

\* ------------------------------------------------- the listener buffer
\* the buffer-length the claim about the listener buffer is checked for
BufferLength == 1

\* cap(ch) of the channel Listeners.Add makes: make(chan Message)
ChanCap == 0

\* len(ch): the messages sent on ch that no receiver has taken yet. A
\* channel holds at most cap(ch) of them, and a channel of capacity 0 hands
\* each message to a receiver blocked in its receive or does not take it.
Pending(b, ch) == ChanCap

\* C21: the fan-out of a publish succeeds for every subscriber that has
\* fewer than buffer-length messages pending, a subscriber is skipped only
\* when buffer-length messages are pending for it, and no subscriber ever
\* has more than buffer-length pending.
C21_BufferedFanOut ==
    [][\A t \in TopicNames, p \in Payloads :
          PublishStep(t, p) =>
              /\ th'[1].n =
                    Cardinality({c \in ChannelsOf(mb, t) :
                                    Pending(mb, c) < BufferLength})
              /\ \A c \in ChannelsOf(mb', t) :
                    Pending(mb', c) <= BufferLength
      ]_vars

\* ---------------------------------------------------------------- topics
\* C30: NewTopic of an unknown name adds a topic with sequence 0 and leaves
\* the other topics alone, NewTopic of a known name changes nothing, and
\* no step removes a topic or takes its counter back.
C30_NewTopicIdempotent ==
    [][/\ \A t \in DOMAIN mb.topics :
             /\ t \in DOMAIN mb'.topics
             /\ mb'.topics[t].Sequence >= mb.topics[t].Sequence
       /\ \A t \in DOMAIN mb'.topics \ DOMAIN mb.topics :
             /\ DOMAIN mb'.topics = DOMAIN mb.topics \cup {t}
             /\ mb'.topics[t].Name = t
             /\ mb'.topics[t].Sequence =
                   IF th'[1].op = "publish" THEN 1 ELSE 0
       /\ \A t \in TopicNames :
             /\ NewTopic(NewTopic(mb, t), t) = NewTopic(mb, t)
             /\ t \in DOMAIN mb.topics => NewTopic(mb, t) = mb
             /\ t \notin DOMAIN mb.topics =>
                   NewTopic(mb, t) =
                       [mb EXCEPT !.topics =
                           MapSet(@, t, [Name |-> t, Sequence |-> 0])]
             /\ (PullStep(t) /\ t \in DOMAIN mb.topics) =>
                   mb'.topics = mb.topics
      ]_vars

\* a pull named a topic that had assigned two ids, while a second topic
\* existed
C30_Witness ==
    /\ th[1].op = "pull"
    /\ th[1].t \in DOMAIN mb.topics
    /\ mb.topics[th[1].t].Sequence >= 2
    /\ Cardinality(DOMAIN mb.topics) = 2

\* --------------------------------------------------- the client process
\* the goroutines of the client that run fn and have not returned
GoroutinesOf(p, fn) == {g \in BagToSet(p.go) : g.fn = fn}
Count(p, fn) ==
    SumOver([g \in GoroutinesOf(p, fn) |-> CopiesIn(g, p.go)],
            GoroutinesOf(p, fn))
\* the connections neither end has closed
LiveConns(p) == {c \in DOMAIN p.conns : Live(p, c)}

\* C22: once Stop has been called on a connected subscription, no step
\* dials, no step starts a read or a write pump, and no step calls the
\* handler.
C22_StoppedStaysStopped ==
    [][sub.stopped =>
          /\ sub'.dials = sub.dials
          /\ Count(sub', "read") <= Count(sub, "read")
          /\ Count(sub', "write") <= Count(sub, "write")
          /\ sub'.handled = sub.handled
      ]_vars

\* C23: at every moment at most one connect loop runs and at most one
\* connection is live, with at most one read pump and one write pump.
C23_OneConnection ==
    /\ Count(sub, "connect") <= 1
    /\ Cardinality(LiveConns(sub)) <= 1
    /\ Count(sub, "read") <= 1
    /\ Count(sub, "write") <= 1

\* C24: while the subscription has not been stopped, the handler has been
\* called at most once for each message the broker published.
C24_AtMostOnce ==
    ~sub.stopped => \A m \in DOMAIN sub.handled : sub.handled[m] <= 1

\* the smaller of two delays
MinOf(a, b) == IF a <= b THEN a ELSE b

\* the step in which connect goroutine g dials
DialStep(g) ==
    /\ g.fn = "connect" /\ g.pc = "dial"
    /\ sub'.dials = sub.dials + 1
    /\ connectDial(g)

\* the goroutines whose Dial has just returned an error
JustFailed ==
    {h \in BagToSet(sub'.go) :
        /\ h.fn = "connect" /\ h.pc = "sleep"
        /\ sub'.dials = sub.dials + 1
        /\ \E g \in BagToSet(sub.go) : g.pc = "dial" /\ h.iter = g.iter + 1}

\* C25 as stated: every dial, the first of a loop included, comes after a
\* sleep of the delay of its iteration, which is at least
\* reconnect-interval.
C25_SleepBeforeEveryDial ==
    [][\A g \in BagToSet(sub.go) :
          DialStep(g) =>
              /\ g.slept = Duration(g.b).d
              /\ g.slept >= sub.s.reconnectInterval
      ]_vars

\* C25 amended: the first dial of a loop is made without a sleep; every
\* later dial of the loop comes after a sleep of exactly the delay that was
\* computed in the iteration whose dial failed.
C25_SleepAfterFailedDial ==
    [][\A g \in BagToSet(sub.go) :
          DialStep(g) =>
              IF g.iter = 0 THEN g.slept = 0
              ELSE g.slept = g.d /\ g.slept > 0
      ]_vars

\* a loop has dialed a second time, after the sleep that followed its
\* first failure, and that dial has failed too
C25_Witness ==
    \E g \in BagToSet(sub.go) :
        g.fn = "connect" /\ g.pc = "sleep" /\ g.iter = 2

\* C26 as stated: the delay of the k-th iteration of a loop is
\* min(reconnect-interval * 2^k, max-reconnect-interval), never below
\* reconnect-interval, never above max-reconnect-interval and never below
\* the delay of the iteration before.
C26_DelayExponential ==
    [][\A h \in JustFailed :
          /\ h.d = MinOf(sub.s.reconnectInterval * 2^(h.iter - 1),
                         sub.s.maxReconnectInterval)
          /\ h.d >= sub.s.reconnectInterval
          /\ h.d <= sub.s.maxReconnectInterval
          /\ \A g \in BagToSet(sub.go) :
                (g.pc = "dial" /\ h.iter = g.iter + 1 /\ g.iter >= 1) =>
                    h.d >= g.d
      ]_vars

\* C26 amended: the same, with the lower bound only for a
\* reconnect-interval that does not exceed max-reconnect-interval.
C26_DelayExponentialCapped ==
    [][\A h \in JustFailed :
          /\ h.d = MinOf(sub.s.reconnectInterval * 2^(h.iter - 1),
                         sub.s.maxReconnectInterval)
          /\ sub.s.reconnectInterval <= sub.s.maxReconnectInterval =>
                h.d >= sub.s.reconnectInterval
          /\ h.d <= sub.s.maxReconnectInterval
          /\ \A g \in BagToSet(sub.go) :
                (g.pc = "dial" /\ h.iter = g.iter + 1 /\ g.iter >= 1) =>
                    h.d >= g.d
      ]_vars

\* the third delay of a loop was cut to max-reconnect-interval
C26_Witness ==
    \E g \in BagToSet(sub.go) :
        /\ g.fn = "connect" /\ g.iter = 3
        /\ g.d = sub.s.maxReconnectInterval
        /\ sub.s.reconnectInterval < sub.s.maxReconnectInterval
        /\ sub.s.reconnectInterval * 4 > sub.s.maxReconnectInterval

C28_FailureReconnects ==
    /\ [][\A g \in BagToSet(sub.go) :
             (g.pc = "reconnect" /\ reconnect(g)) =>
                 /\ sub'.conns[g.conn].closed
                 /\ CopiesIn(GoConnect(sub.s), sub'.go)
                       = CopiesIn(GoConnect(sub.s), sub.go) + 1
        ]_vars
    /\ [](sub.app # "panic")
    /\ \A n \in 0 .. MaxDials - 1 :
          (/\ sub.dials = n
           /\ \E g \in BagToSet(sub.go) :
                 g.pc \in {"reconnect", "dial", "sleep"})
              ~> (sub.dials > n)

\* C29: after a Pull, a 404 has given no message and no error, a 200 with
\* a decodable body has given the decoded message and no error, and any
\* other status has given an error and no message.
C29_PullStatusMapping ==
    sub.res.status # 0 =>
        /\ sub.res.status = StatusNotFound =>
              sub.out = [msg |-> NilMessage, err |-> FALSE]
        /\ (sub.res.status = StatusOK /\ sub.res.body.kind = "json") =>
              sub.out = [msg |-> Ptr(sub.res.body.msg), err |-> FALSE]
        /\ sub.res.status \notin {StatusOK, StatusNotFound} =>
              sub.out = [msg |-> NilMessage, err |-> TRUE]

\* ------------------------------------------------------ topic isolation
\* C37: a message published to topic t is enqueued only on the queue of t
\* and sent only on channels of t: the publish leaves every other topic's
\* queue, counter and receivers as they were; every queue holds messages
\* of its own topic only, every receiver holds a message of its channel's
\* topic only, and a pull on a topic returns a message of that topic.
C37_TopicsIsolated ==
    [][/\ \A t \in TopicNames, p \in Payloads :
            PublishStep(t, p) =>
                /\ th'[1].msg.Topic = t
                /\ \A u \in TopicNames \ {t} :
                     /\ QueueOf(mb', u) = QueueOf(mb, u)
                     /\ SequenceOf(mb', u) = SequenceOf(mb, u)
                     /\ u \in DOMAIN mb'.queues <=> u \in DOMAIN mb.queues
                /\ \A c \in DOMAIN mb.rx : c[1] # t => mb'.rx[c] = mb.rx[c]
       /\ \A t \in DOMAIN mb'.queues :
            \A i \in 1..Len(mb'.queues[t]) : mb'.queues[t][i].Topic = t
       /\ \A c \in DOMAIN mb'.rx :
            mb'.rx[c].pc = "write" => mb'.rx[c].msg.Topic = c[1]
       /\ \A t \in TopicNames :
            PullStep(t) /\ th'[1].ok => th'[1].msg.Topic = t
      ]_vars

\* a publish on one topic was taken by its subscriber while another topic
\* holds a queued message and a subscriber waiting in its receive
C37_Witness ==
    /\ th[1].op = "publish"
    /\ th[1].n = 1
    /\ \E u \in DOMAIN mb.queues \ {th[1].t} :
          /\ Len(mb.queues[u]) > 0
          /\ \E c \in ChannelsOf(mb, u) : mb.rx[c].pc = "select"

\* ------------------------------------------------------- resubscription
\* C38: a Subscribe(id, t) of an id that is not subscribed, after an
\* Unsubscribe(id, t) too, returns a channel that was never made before
\* and is open; a closed channel is in no listener set, and its receiver
\* is sent no message: every send of a publish goes to a channel the
\* listener set of the topic holds, which is open.
C38_ResubscribeFreshChannel ==
    [][/\ \A id \in Ids, t \in TopicNames :
            SubscribeStep(id, t) =>
                /\ th'[1].ch \notin mb'.closed
                /\ th'[1].ch = mb'.listeners[t].chs[id]
                /\ ~Subscribed(mb, id, t) =>
                       /\ th'[1].ch \notin DOMAIN mb.rx
                       /\ th'[1].ch \notin mb.closed
       /\ \A c \in mb'.closed : c \notin ChannelsOf(mb', c[1])
       /\ \A c \in DOMAIN mb.rx :
            (mb'.rx[c].pc = "write" /\ mb'.rx[c] # mb.rx[c]) =>
                /\ c \notin mb'.closed
                /\ c \in ChannelsOf(mb, c[1])
      ]_vars

\* after Unsubscribe and a second Subscribe of the same id, a publish was
\* taken on the second channel while the first is closed
C38_Witness ==
    /\ th[1].op = "publish"
    /\ th[1].n = 1
    /\ \E id \in Ids :
          /\ <<th[1].t, id, 1>> \in mb.closed
          /\ mb.listeners[th[1].t].chs[id] = <<th[1].t, id, 2>>
          /\ mb.rx[<<th[1].t, id, 2>>] = [pc |-> "write", msg |-> th[1].msg]

\* C39: an Unsubscribe(id, t) closes at most the channel id holds on t and
\* changes the listener set of no other topic and the receiver of no other
\* topic's channel; an id subscribed to two topics holds two channels, and
\* after the Unsubscribe on one topic a publish on the other is still sent
\* on the channel the id holds there when its receiver is waiting.
C39_UnsubscribeOneTopic ==
    [][/\ \A id \in Ids, t \in TopicNames :
            UnsubscribeStep(id, t) =>
                /\ \A u \in DOMAIN mb.listeners \ {t} :
                       mb'.listeners[u] = mb.listeners[u]
                /\ mb'.closed \ mb.closed \subseteq
                       (IF Subscribed(mb, id, t)
                        THEN {mb.listeners[t].chs[id]} ELSE {})
                /\ \A c \in DOMAIN mb.rx : c[1] # t => mb'.rx[c] = mb.rx[c]
       /\ \A id \in Ids, t, u \in DOMAIN mb'.listeners :
            (t # u /\ Subscribed(mb', id, t) /\ Subscribed(mb', id, u)) =>
                mb'.listeners[t].chs[id] # mb'.listeners[u].chs[id]
       /\ \A u \in TopicNames, p \in Payloads :
            PublishStep(u, p) =>
                \A id \in Ids :
                    (Subscribed(mb, id, u)
                     /\ ReceiverWaiting(mb, mb.listeners[u].chs[id])) =>
                        mb'.rx[mb.listeners[u].chs[id]] =
                            [pc |-> "write", msg |-> th'[1].msg]
      ]_vars

\* an id subscribed to two topics was unsubscribed from one, and a publish
\* on the other was then taken on the channel it still holds there
C39_Witness ==
    /\ th[1].op = "publish"
    /\ th[1].n = 1
    /\ \E id \in Ids, t \in TopicNames \ {th[1].t} :
          /\ <<t, id, 1>> \in mb.closed
          /\ ~Subscribed(mb, id, t)
          /\ Subscribed(mb, id, th[1].t)
          /\ mb.rx[mb.listeners[th[1].t].chs[id]] =
                 [pc |-> "write", msg |-> th[1].msg]

\* ------------------------------------------------- the publish response
\* C32: the number in the response of a publish, "message successfully
\* published to <topic> with sequence <n>", is the id of the message the
\* request published.
C32_ResponseSequence ==
    (th[1].op = "publish" /\ th[1].pc = "idle" /\ th[1].status = StatusOK)
        => th[1].tmp = th[1].msg.ID

\* ------------------------------------------------------ Stop at any time
\* C40: Stop, whenever the application calls it after Start, finds a
\* connection to close, and no pump that runs beside it calls a method on
\* the connection Stop has set to nil: no goroutine of the process panics
\* on a nil s.conn.
C40_StopSafeAnytime == sub.app # "panic"

\* -------------------------------------------------------------- metrics
\* the subscribers of t that the fan-out of this publish step has not
\* handed its message
Missed(t) ==
    {id \in (IF t \in DOMAIN mb.listeners THEN mb.listeners[t].ids ELSE {}) :
        mb'.rx[mb.listeners[t].chs[id]] #
            [pc |-> "write", msg |-> th'[1].msg]}

\* C31: on a broker with metrics, a publish on t raises bus/dropped by one
\* when at least one subscriber of t has not received the message in its
\* fan-out, and leaves it as it was when t has no subscriber or every
\* subscriber has received the message.
C31_DroppedCounted ==
    []["dropped" \in DOMAIN mb.metrics =>
          \A t \in TopicNames, p \in Payloads :
              PublishStep(t, p) =>
                  mb'.metrics.dropped =
                      mb.metrics.dropped + (IF Missed(t) # {} THEN 1 ELSE 0)
      ]_vars

\* the second publish on a topic, which one of two subscribers took and
\* the other missed, has been counted; the first was not
C31_Witness ==
    /\ "dropped" \in DOMAIN mb.metrics
    /\ mb.metrics.dropped = 1
    /\ th[1].op = "publish"
    /\ th[1].msg.ID = 1
    /\ th[1].n = 1
    /\ Length(mb.listeners[th[1].t]) = 2

\* the listener entries over all topics
Subscribers(b) ==
    SumOver([t \in DOMAIN b.listeners |-> Length(b.listeners[t])],
            DOMAIN b.listeners)

\* C35: on a broker with metrics, whenever no call is in progress the gauge
\* bus/subscribers is the number of listener entries over all topics,
\* after repeated Subscribes of one id and Unsubscribes of an id that is
\* not subscribed too; it is never negative.
C35_GaugeCountsSubscribers ==
    "subscribers" \in DOMAIN mb.metrics =>
        /\ mb.metrics.subscribers = Subscribers(mb)
        /\ mb.metrics.subscribers >= 0

\* C36: on a broker with metrics, whenever no call is in progress the
\* counter bus/topics is the number of topics in the registry, whether a
\* topic was made by NewTopic or by Subscribe.
C36_TopicsCounted ==
    "topics" \in DOMAIN mb.metrics =>
        mb.metrics.topics = Cardinality(DOMAIN mb.topics)

\* ------------------------------------------------------- failed writes
\* C33: a write of a message that fails on a session leaves the write task
\* at its select, the session in the listener set with its channel open
\* and its socket as it was; it raises client/errors by one and leaves
\* bus/delivered; the message goes back on no queue, the task does not
\* hold it any longer and no other receiver is handed it; a later publish
\* is sent on the channel again when the task waits in its receive.
C33_WriteFailureKeepsSession ==
    [][/\ \A c \in DOMAIN mb.rx :
            RxWriteFails(c) =>
                /\ mb'.rx[c].pc = "select"
                /\ mb'.listeners = mb.listeners
                /\ mb'.closed = mb.closed
                /\ mb'.ss = mb.ss
                /\ mb'.metrics.errors = mb.metrics.errors + 1
                /\ mb'.metrics.delivered = mb.metrics.delivered
                /\ mb'.queues = mb.queues
                /\ mb'.rx[c].msg # mb.rx[c].msg
                /\ \A d \in DOMAIN mb.rx \ {c} : mb'.rx[d] = mb.rx[d]
       /\ \A t \in TopicNames, p \in Payloads :
            PublishStep(t, p) =>
                \A c \in ChannelsOf(mb, t) :
                    ReceiverWaiting(mb, c) =>
                        mb'.rx[c] = [pc |-> "write", msg |-> th'[1].msg]
      ]_vars

\* the first message of a topic failed on the one session there is, which
\* is still subscribed and open and is now writing the second
C33_Witness ==
    /\ mb.metrics.errors = 1
    /\ mb.metrics.delivered = 0
    /\ Made = 1
    /\ \E c \in DOMAIN mb.ss :
          /\ mb.rx[c].pc = "write"
          /\ mb.rx[c].msg.ID = 1
          /\ mb.ss[c].conn = "open"
          /\ c \in ChannelsOf(mb, c[1])

\* ------------------------------------------------ shutdown of a session
\* the sessions whose channel is closed and that have a task running or
\* their socket open
Unfinished ==
    {c \in DOMAIN mb.ss :
        /\ c \in mb.closed
        /\ ~(/\ mb.rx[c].pc = "exit"
             /\ mb.ss[c].conn = "closed"
             /\ mb.ss[c].rd = "done")}

\* C34: once the channel of a session has been closed, by an Unsubscribe
\* of the application or of the session's own read task, the write task
\* comes to see the closed channel and returns, the socket is closed, and
\* the read task returns: the sessions with a closed channel all come to
\* have both tasks ended (and an ended task or a closed socket stays so).
C34_ClosedChannelEndsSession ==
    /\ (Unfinished # {}) ~> (Unfinished = {})
    /\ [][\A c \in DOMAIN mb.ss :
             /\ c \in mb.closed => c \in mb'.closed
             /\ mb.rx[c].pc = "exit" => mb'.rx[c].pc = "exit"
             /\ mb.ss[c].conn = "closed" => mb'.ss[c].conn = "closed"
             /\ mb.ss[c].rd = "done" => mb'.ss[c].rd = "done"]_vars

\* the application has unsubscribed a session whose tasks were running:
\* the write task has returned, and the read task has returned on the read
\* of the closed socket
C34_Witness ==
    /\ th[1].op = "unsubscribe"
    /\ \E c \in DOMAIN mb.ss :
          /\ c = <<th[1].t, th[1].id, 1>>
          /\ c \in mb.closed
          /\ mb.rx[c].pc = "exit"
          /\ mb.ss[c] = [rd |-> "done", conn |-> "closed", err |-> "closed"]

====
